---- MODULE Spec2Model ----
(***************************************************************************)
(* Model of the ulibSD card driver (sd_io.h / sd_io.c): the session object *)
(* SD_DEV, the command dispatch __SD_Send_Cmd, the negotiation SD_Init,    *)
(* the descriptor decode __SD_Sectors and the block operations SD_Read,    *)
(* SD_Write and SD_Status, driven by a single-threaded caller.  The        *)
(* transport (the SPI_ functions) and the card are the environment: each   *)
(* byte the driver polls for is chosen by the card, and a running timer    *)
(* may expire during any exchange.                                         *)
(***************************************************************************)
EXTENDS Integers, Sequences, FiniteSets

VARIABLES
    dev,        \* SD_DEV: [mount, cardtype, last_sector]
    spi,        \* transport: chip select, clock mode, timer, and what the call did on it:
                \* xfer (a byte exchanged), cschg (chip select driven), ms (the timeout
                \* last started), tmo (the timer last stopped had expired)
    card,       \* the card's stored block: [addr, data]
    pc,         \* position of the running public function ("idle": none running)
    op,         \* the public function running, or the last one that returned
    stk,        \* activations of __SD_Send_Cmd, innermost last
    retval,     \* value returned by the last __SD_Send_Cmd (0 once a new frame is out)
    npoll,      \* polls made by the response wait of __SD_Send_Cmd
    nloop,      \* passes made by the polling loop of the public function
    frame,      \* last 6-byte command frame clocked out during the call
    sector,     \* argument of SD_Read / SD_Write
    ofs,        \* argument of SD_Read
    cnt,        \* argument of SD_Read
    dat,        \* SD_Write: the block to write; SD_Read: the bytes stored so far
    result,     \* SDRESULTS returned by the last call
    ct,         \* SD_Init local
    cmd,        \* SD_Init local
    init_trys,  \* SD_Init local
    tries,      \* SD_Init: per finished pass, what line 297 saw and the ct it ended with
    ss,         \* value returned by the last __SD_Sectors
    tkn,        \* SD_Read local
    line,       \* __SD_Write_Block local
    dresp,      \* __SD_Write_Block: the data-response byte read at line 199
    clocked,    \* SD_Read: bytes clocked after the start token
    last_write, \* sector and block of the last SD_Write that returned SD_OK
    csd         \* __SD_Sectors local: the descriptor register read from the card

vars == <<dev, spi, card, pc, op, stk, retval, npoll, nloop, frame, sector, ofs, cnt,
          dat, result, ct, cmd, init_trys, tries, ss, tkn, line, dresp, clocked,
          last_write, csd>>

(***************************************************************************)
(* Bounds of the model                                                     *)
(***************************************************************************)
\* A polling loop makes at most MaxPoll passes with its timeout still running.
MaxPoll == 1

(***************************************************************************)
(* Program constants                                                       *)
(***************************************************************************)
SD_IO_WRITE_TIMEOUT_WAIT == 250
CMD0 == 64
CMD1 == 65
ACMD41 == 233
CMD8 == 72
CMD9 == 73
CMD16 == 80
CMD17 == 81
CMD24 == 88
CMD55 == 119
CMD58 == 122
CMD59 == 123
SD_INIT_TRYS == 3
SDCT_MMC == 1
SDCT_SD1 == 2
SDCT_SD2 == 4
SDCT_BLOCK == 8
SD_BLK_SIZE == 512

SD_OK == "SD_OK"
SD_NOINIT == "SD_NOINIT"
SD_ERROR == "SD_ERROR"
SD_PARERR == "SD_PARERR"
SD_BUSY == "SD_BUSY"
SD_REJECT == "SD_REJECT"
SD_NORESPONSE == "SD_NORESPONSE"

\* Widths of uint8_t and uint16_t.
U8 == 256
U16 == 65536

\* A uint32_t is the pair << high half, low half >> of its 16-bit halves.
U32Of(n) == << (n \div U16) % U16, n % U16 >>

Zero32 == << 0, 0 >>

\* x * m as uint32_t, for m <= 32768
Mul32(x, m) == << ((x[1] * m) + ((x[2] * m) \div U16)) % U16, (x[2] * m) % U16 >>

\* x / 512 as uint32_t
Div512(x) == << x[1] \div 512, ((x[1] % 512) * 128) + (x[2] \div 512) >>

Lt32(x, y) == x[1] < y[1] \/ (x[1] = y[1] /\ x[2] < y[2])

\* x - 1 and x + 1 as uint32_t
Dec32(x) == IF x[2] > 0 THEN << x[1], x[2] - 1 >> ELSE << (x[1] - 1) % U16, U16 - 1 >>

Inc32(x) == IF x[2] < U16 - 1 THEN << x[1], x[2] + 1 >> ELSE << (x[1] + 1) % U16, 0 >>

RECURSIVE Pow2(_)
Pow2(e) == IF e = 0 THEN 1 ELSE 2 * Pow2(e - 1)

\* x & (1 << k) is non-zero
Bit(x, k) == (x \div Pow2(k)) % 2 = 1

(***************************************************************************)
(* Transport                                                               *)
(***************************************************************************)
SPI_RW(s) == [s EXCEPT !.xfer = TRUE]

SPI_CS_Low(s) == [s EXCEPT !.cs = "low", !.cschg = TRUE]

SPI_CS_High(s) == [s EXCEPT !.cs = "high", !.cschg = TRUE]

SPI_Freq_Low(s) == [s EXCEPT !.freq = "low"]

SPI_Freq_High(s) == [s EXCEPT !.freq = "high"]

SPI_Timer_On(s, ms) == [s EXCEPT !.timer = "run", !.ms = ms, !.tmo = FALSE]

SPI_Timer_Off(s) == [s EXCEPT !.timer = "off", !.tmo = (s.timer = "exp")]

\* Release of the card: chip select released, one trailing idle byte.
SPI_Release(s) == SPI_RW(SPI_CS_High(s))

\* Time passes during an exchange: a running timer may expire, and has expired
\* once the loop waiting on it made MaxPoll passes.
Elapse(s, n) ==
    IF s.timer = "run"
    THEN (IF n >= MaxPoll THEN {} ELSE {s}) \cup {[s EXCEPT !.timer = "exp"]}
    ELSE {s}

\* What SPI_Timer_Status can return: TRUE while the timeout is not reached; of a
\* stopped timer the answer is the port's choice.
SPI_Timer_Status(s, n) ==
    CASE s.timer = "run" -> {TRUE}
      [] s.timer = "exp" -> {FALSE}
      [] OTHER -> IF n >= MaxPoll THEN {FALSE} ELSE {TRUE, FALSE}

\* n exchanges in a row: what they leave on the transport is what one leaves
SPI_RW_n(s, n) == IF n = 0 THEN s ELSE SPI_RW(s)

(***************************************************************************)
(* The card, as far as the driver can see it                               *)
(***************************************************************************)
\* R1 bytes a card answers a command with: ready, idle, idle + illegal command,
\* and no answer.
R1Bytes == {0, 1, 5, 255}

Blank == [i \in 1..SD_BLK_SIZE |-> 0]

\* The block the card sends for a read of byte address a.
CardBlock(c, a) == IF c.addr = a THEN c.data ELSE Blank

\* Byte i (from 0) of the stream that follows the start token of a read: the
\* block, two CRC bytes, then the idle line.
CardStream(c, a, i) ==
    IF i < SD_BLK_SIZE THEN CardBlock(c, a)[i + 1]
    ELSE IF i < SD_BLK_SIZE + 2 THEN 170
    ELSE 255

(***************************************************************************)
(* __SD_Send_Cmd                                                           *)
(***************************************************************************)
IsAppCmd(c) == Bit(c, 7)

CmdCrc(c) == IF c = CMD0 THEN 149 ELSE IF c = CMD8 THEN 135 ELSE 1

CmdFrame(c, arg) ==
    << c, arg[1] \div U8, arg[1] % U8, arg[2] \div U8, arg[2] % U8, CmdCrc(c) >>

\* line 146 aborting on "idle" too
EscAbort_Idle(res) == res > 0

EscAbort(res) == res > 1

RespAgain(res, status) == Bit(res, 7) /\ status = TRUE

\* The address a command frame carries.
FrameArg(f) == << (f[2] * U8) + f[3], (f[4] * U8) + f[5] >>

Activation(c, arg) == [cmd |-> c, arg |-> arg, at |-> "entry"]

Call(c, arg) == << Activation(c, arg) >>

Top == stk[Len(stk)]

Below == SubSeq(stk, 1, Len(stk) - 1)

\* lines 150-170: select the card, clock the frame out, start the 5 ms timeout
Select(s) ==
    SPI_Timer_On(SPI_RW_n(SPI_RW(SPI_CS_Low(SPI_RW(SPI_CS_High(s)))), 6), 5)

SendFrame(c, arg) ==
    /\ spi' = Select(spi)
    /\ frame' = CmdFrame(c, arg)
    /\ npoll' = 0
    /\ stk' = Below \o << [Top EXCEPT !.cmd = c, !.at = "poll"] >>
    /\ retval' = 0

\* lines 143-145, or 150-170 for a plain command
SC_Entry ==
    /\ stk # << >>
    /\ Top.at = "entry"
    /\ IF IsAppCmd(Top.cmd)
       THEN /\ stk' = Below \o << [Top EXCEPT !.cmd = Top.cmd % 128, !.at = "esc"],
                                  Activation(CMD55, Zero32) >>
            /\ UNCHANGED <<spi, frame, npoll, retval>>
       ELSE SendFrame(Top.cmd, Top.arg)
    /\ UNCHANGED <<dev, card, pc, op, nloop, sector, ofs, cnt, dat, result, ct, cmd,
                   init_trys, tries, ss, tkn, line, dresp, clocked, last_write>>
    /\ UNCHANGED csd

\* line 146, then 150-170
SC_Esc ==
    /\ stk # << >>
    /\ Top.at = "esc"
    /\ IF EscAbort(retval)
       THEN /\ stk' = Below
            /\ UNCHANGED <<spi, frame, npoll, retval>>
       ELSE SendFrame(Top.cmd, Top.arg)
    /\ UNCHANGED <<dev, card, pc, op, nloop, sector, ofs, cnt, dat, result, ct, cmd,
                   init_trys, tries, ss, tkn, line, dresp, clocked, last_write>>
    /\ UNCHANGED csd

\* lines 171-176: one pass of the response wait.  The timer is looked at only
\* after a byte with bit 7 set, so only then does it matter whether it expired.
SC_Poll ==
    /\ stk # << >>
    /\ Top.at = "poll"
    /\ \E res \in R1Bytes :
       \E s \in (IF Bit(res, 7) THEN Elapse(SPI_RW(spi), npoll) ELSE {SPI_RW(spi)}) :
       \E status \in SPI_Timer_Status(s, npoll) :
          IF RespAgain(res, status)
          THEN /\ spi' = s
               /\ npoll' = npoll + 1
               /\ UNCHANGED <<stk, retval>>
          ELSE /\ spi' = SPI_Timer_Off(s)
               /\ npoll' = 0
               /\ stk' = Below
               /\ retval' = res
    /\ UNCHANGED <<dev, card, pc, op, nloop, frame, sector, ofs, cnt, dat, result, ct,
                   cmd, init_trys, tries, ss, tkn, line, dresp, clocked, last_write>>
    /\ UNCHANGED csd

(***************************************************************************)
(* The caller                                                              *)
(***************************************************************************)
\* csd[16] before __SD_Sectors has filled it
NoCSD == << >>

\* What every call starts from: the transport's record of the call and the
\* locals of the public functions.
Fresh(s) == [s EXCEPT !.xfer = FALSE, !.cschg = FALSE, !.ms = 0, !.tmo = FALSE]

Enter(o) ==
    /\ pc = "idle"
    /\ op' = o
    /\ spi' = Fresh(spi)
    /\ frame' = << >>
    /\ retval' = 0 /\ npoll' = 0 /\ nloop' = 0
    /\ ct' = 0 /\ cmd' = 0 /\ init_trys' = 0 /\ tries' = << >>
    /\ tkn' = 0 /\ line' = 0 /\ dresp' = 0 /\ clocked' = 0
    /\ csd' = NoCSD

Returned(o) == pc = "idle" /\ op = o /\ stk = << >>

\* The sectors a caller asks for: the ends of the card, and the first one past it.
SectorArgs ==
    {Zero32, U32Of(dev.last_sector), Inc32(U32Of(dev.last_sector)), Dec32(ss), ss}

\* The (ofs, cnt) a caller asks for.
ReadArgs == { <<0, 512>>, <<511, 1>>, <<100, 12>>, <<0, 0>>, <<2, 512>> }

Pattern(p) == [i \in 1..SD_BLK_SIZE |-> (p * i) % U8]

\* The blocks a caller writes.
Patterns == {Pattern(1), Pattern(3)}

(***************************************************************************)
(* __SD_Sectors                                                            *)
(***************************************************************************)
\* The descriptor registers a card presents (csd[0] first).
CSDs == { <<0, 0, 0, 0, 0, 9, 0, 0, 0, 0, 0, 0, 0, 0, 0, 0>>,
          <<0, 0, 0, 0, 0, 9, 2, 0, 1, 1, 128, 0, 0, 0, 0, 0>> }

__SD_Power_Of_Two(e) == Pow2(e)

\* lines 233-258: the fields, each in the width of its C variable.  A shifted
\* value has its low bits clear, so the | of the code adds.
READ_BL_LEN(cardtype, reg) ==
    IF Bit(cardtype, 1) THEN reg[6] % 16 ELSE 0

C_SIZE(cardtype, reg) ==
    IF Bit(cardtype, 1)
    THEN ((((((reg[7] % 4) * 256) % U16) + reg[8]) * 4) % U16) + ((reg[9] \div 64) % 4)
    ELSE IF Bit(cardtype, 2)
    THEN ((((((reg[8] % 64) * 256) % U16) + reg[9]) * 256) % U16) + reg[10]
    ELSE 0

C_SIZE_MULT(cardtype, reg) ==
    IF Bit(cardtype, 1)
    THEN (((reg[10] % 4) * 2) % U8) + ((reg[11] \div 128) % 2)
    ELSE 0

\* lines 259-263
Capacity(c_size, c_size_mult, read_bl_len) ==
    Div512(Mul32(Mul32(U32Of(c_size + 1), __SD_Power_Of_Two((c_size_mult + 2) % U8)),
                 __SD_Power_Of_Two(read_bl_len)))

__SD_Sectors(cardtype, reg) ==
    Capacity(C_SIZE(cardtype, reg), C_SIZE_MULT(cardtype, reg), READ_BL_LEN(cardtype, reg))

(***************************************************************************)
(* SD_Init                                                                 *)
(***************************************************************************)
\* The four bytes that follow the R1 of CMD8, and of CMD58.
R7s == { <<0, 0, 1, 170>>, <<0, 0, 0, 0>> }

OCRs == { <<192, 255, 128, 0>>, <<128, 255, 128, 0>> }

\* line 277 with one pass too many
InitLoopCond_Four(trys, c) == trys # SD_INIT_TRYS + 1 /\ c = 0

\* line 277 without the test of ct
InitLoopCond_NoCt(trys, c) == trys # SD_INIT_TRYS

InitLoopCond(trys, c) == trys # SD_INIT_TRYS /\ c = 0

IdleAgain(res, status) == res # 1 /\ status = TRUE

OpCondAgain(status, res) == status = TRUE /\ res # 0

\* line 342 without the "- 1"
LastSector_NoDec(count) == count[2] % U16

\* line 342: the uint16_t field takes the low half of the count, less one
LastSector(count) == (count[2] - 1) % U16

\* lines 340-341 without the mount flag
Mount_NoFlag(d, c) == [d EXCEPT !.cardtype = c]

\* lines 340-341
Mount(d, c) == [d EXCEPT !.cardtype = c, !.mount = TRUE]

\* lines 280-293: power-up clocks, the 500 ms hold, start of the idle timeout
PowerUp(s) ==
    SPI_Timer_On(
        SPI_Timer_Off([SPI_Timer_On(SPI_RW_n(SPI_Freq_Low(SPI_CS_High(s)), 10), 500)
                          EXCEPT !.timer = "exp"]),
        500)

\* the end of a pass of the for loop of line 277; cmd is not read again before
\* line 323 or 327 sets it
EndPass(idle, c) ==
    /\ ct' = c
    /\ cmd' = 0
    /\ init_trys' = (init_trys + 1) % U8
    /\ tries' = Append(tries, [idle |-> idle, ct |-> c])
    /\ nloop' = 0
    /\ pc' = "I277"

SD_Init_Call ==
    /\ Enter("SD_Init")
    /\ pc' = "I277"
    /\ result' = "none"
    /\ sector' = Zero32 /\ ofs' = 0 /\ cnt' = 0 /\ dat' = << >>
    /\ UNCHANGED <<dev, card, stk, ss, last_write>>

\* line 277, then 280-294
SD_Init_Loop ==
    /\ pc = "I277"
    /\ IF InitLoopCond(init_trys, ct)
       THEN /\ spi' = PowerUp(spi)
            /\ dev' = [dev EXCEPT !.mount = FALSE]
            /\ stk' = Call(CMD0, Zero32)
            /\ pc' = "I294"
       ELSE /\ pc' = "I339"
            /\ UNCHANGED <<spi, dev, stk>>
    /\ UNCHANGED <<card, op, retval, npoll, nloop, frame, sector, ofs, cnt, dat, result,
                   ct, cmd, init_trys, tries, ss, tkn, line, dresp, clocked, last_write>>
    /\ UNCHANGED csd

\* lines 294-297
SD_Init_Idle ==
    /\ pc = "I294"
    /\ stk = << >>
    /\ \E status \in SPI_Timer_Status(spi, nloop) :
          IF IdleAgain(retval, status)
          THEN /\ nloop' = nloop + 1
               /\ stk' = Call(CMD0, Zero32)
               /\ UNCHANGED <<spi, pc>>
          ELSE /\ nloop' = 0
               /\ spi' = SPI_Timer_Off(spi)
               /\ stk' = Call(CMD0, Zero32)
               /\ pc' = "I297"
    /\ UNCHANGED <<dev, card, op, retval, npoll, frame, sector, ofs, cnt, dat, result,
                   ct, cmd, init_trys, tries, ss, tkn, line, dresp, clocked, last_write>>
    /\ UNCHANGED csd

\* lines 297-299
SD_Init_Probe ==
    /\ pc = "I297"
    /\ stk = << >>
    /\ IF retval = 1
       THEN /\ stk' = Call(CMD8, U32Of(426))
            /\ pc' = "I299"
            /\ UNCHANGED <<ct, cmd, init_trys, tries, nloop>>
       ELSE /\ EndPass(FALSE, ct)
            /\ UNCHANGED stk
    /\ UNCHANGED <<dev, spi, card, op, retval, npoll, frame, sector, ofs, cnt, dat,
                   result, ss, tkn, line, dresp, clocked, last_write>>
    /\ UNCHANGED csd

\* lines 299-307, and 319
SD_Init_Version ==
    /\ pc = "I299"
    /\ stk = << >>
    /\ IF retval = 1
       THEN \E ocr \in R7s :
            IF ocr[3] = 1 /\ ocr[4] = 170
            THEN /\ spi' = SPI_Timer_On(SPI_RW_n(spi, 4), 1000)
                 /\ stk' = Call(ACMD41, << 16384, 0 >>)
                 /\ pc' = "I307"
                 /\ UNCHANGED <<ct, cmd, init_trys, tries, nloop>>
            ELSE /\ spi' = SPI_RW_n(spi, 4)
                 /\ EndPass(TRUE, ct)
                 /\ UNCHANGED stk
       ELSE /\ stk' = Call(ACMD41, Zero32)
            /\ pc' = "I319"
            /\ UNCHANGED <<spi, ct, cmd, init_trys, tries, nloop>>
    /\ UNCHANGED <<dev, card, op, retval, npoll, frame, sector, ofs, cnt, dat, result,
                   ss, tkn, line, dresp, clocked, last_write>>
    /\ UNCHANGED csd

\* lines 307-310: a pass of the wait of the SD-v2 branch, and what follows it
SD_Init_V2Wait ==
    /\ pc = "I307"
    /\ stk = << >>
    /\ \E status \in SPI_Timer_Status(spi, nloop) :
          IF OpCondAgain(status, retval)
          THEN /\ nloop' = nloop + 1
               /\ stk' = Call(ACMD41, << 16384, 0 >>)
               /\ UNCHANGED <<spi, pc, ct, cmd, init_trys, tries>>
          ELSE /\ spi' = SPI_Timer_Off(spi)
               /\ \E after \in SPI_Timer_Status(SPI_Timer_Off(spi), 0) :
                     IF after = TRUE
                     THEN /\ stk' = Call(CMD58, Zero32)
                          /\ pc' = "I310"
                          /\ nloop' = 0
                          /\ UNCHANGED <<ct, cmd, init_trys, tries>>
                     ELSE /\ EndPass(TRUE, ct)
                          /\ UNCHANGED stk
    /\ UNCHANGED <<dev, card, op, retval, npoll, frame, sector, ofs, cnt, dat, result,
                   ss, tkn, line, dresp, clocked, last_write>>
    /\ UNCHANGED csd

\* lines 310-315
SD_Init_V2Class ==
    /\ pc = "I310"
    /\ stk = << >>
    /\ IF retval = 0
       THEN \E ocr \in OCRs :
            /\ spi' = SPI_RW_n(spi, 4)
            /\ EndPass(TRUE, IF Bit(ocr[1], 6) THEN SDCT_SD2 + SDCT_BLOCK ELSE SDCT_SD2)
       ELSE /\ EndPass(TRUE, ct)
            /\ UNCHANGED spi
    /\ UNCHANGED <<dev, card, op, stk, retval, npoll, frame, sector, ofs, cnt, dat,
                   result, ss, tkn, line, dresp, clocked, last_write>>
    /\ UNCHANGED csd

\* lines 319-331
SD_Init_Legacy ==
    /\ pc = "I319"
    /\ stk = << >>
    /\ ct' = (IF retval <= 1 THEN SDCT_SD1 ELSE SDCT_MMC)
    /\ cmd' = (IF retval <= 1 THEN ACMD41 ELSE CMD1)
    /\ spi' = SPI_Timer_On(spi, 250)
    /\ stk' = Call(cmd', Zero32)
    /\ pc' = "I331"
    /\ UNCHANGED <<dev, card, op, retval, npoll, nloop, frame, sector, ofs, cnt, dat,
                   result, init_trys, tries, ss, tkn, line, dresp, clocked, last_write>>
    /\ UNCHANGED csd

\* lines 331-334: a pass of the wait of the legacy branch, and what follows it
SD_Init_LegacyWait ==
    /\ pc = "I331"
    /\ stk = << >>
    /\ \E status \in SPI_Timer_Status(spi, nloop) :
          IF OpCondAgain(status, retval)
          THEN /\ nloop' = nloop + 1
               /\ stk' = Call(cmd, Zero32)
               /\ UNCHANGED <<spi, pc, ct>>
          ELSE /\ spi' = SPI_Timer_Off(spi)
               /\ nloop' = 0
               /\ \E after \in SPI_Timer_Status(SPI_Timer_Off(spi), 0) :
                     ct' = (IF after = FALSE THEN 0 ELSE ct)
               /\ stk' = Call(CMD59, Zero32)
               /\ pc' = "I334"
    /\ UNCHANGED <<dev, card, op, retval, npoll, frame, sector, ofs, cnt, dat, result,
                   cmd, init_trys, tries, ss, tkn, line, dresp, clocked, last_write>>
    /\ UNCHANGED csd

\* lines 334-335
SD_Init_CrcOff ==
    /\ pc = "I334"
    /\ stk = << >>
    /\ ct' = (IF retval # 0 THEN 0 ELSE ct)
    /\ stk' = Call(CMD16, U32Of(512))
    /\ pc' = "I335"
    /\ UNCHANGED <<dev, spi, card, op, retval, npoll, nloop, frame, sector, ofs, cnt,
                   dat, result, cmd, init_trys, tries, ss, tkn, line, dresp, clocked,
                   last_write>>
    /\ UNCHANGED csd

\* line 335, and the end of the pass
SD_Init_BlockLen ==
    /\ pc = "I335"
    /\ stk = << >>
    /\ EndPass(TRUE, IF retval # 0 THEN 0 ELSE ct)
    /\ UNCHANGED <<dev, spi, card, op, stk, retval, npoll, frame, sector, ofs, cnt, dat,
                   result, ss, tkn, line, dresp, clocked, last_write>>
    /\ UNCHANGED csd

\* lines 339-342 up to the CMD9 of __SD_Sectors, or 345-346
SD_Init_Mount ==
    /\ pc = "I339"
    /\ IF ct # 0
       THEN /\ dev' = Mount(dev, ct)
            /\ stk' = Call(CMD9, Zero32)
            /\ pc' = "S224"
            /\ UNCHANGED <<spi, result>>
       ELSE /\ spi' = SPI_Release(spi)
            /\ result' = SD_NOINIT
            /\ pc' = "idle"
            /\ UNCHANGED <<dev, stk>>
    /\ UNCHANGED <<card, op, retval, npoll, nloop, frame, sector, ofs, cnt, dat, ct, cmd,
                   init_trys, tries, ss, tkn, line, dresp, clocked, last_write>>
    /\ UNCHANGED csd

\* line 224, and 264
SD_Sectors_Cmd ==
    /\ pc = "S224"
    /\ stk = << >>
    /\ IF retval = 0
       THEN /\ pc' = "S227"
            /\ UNCHANGED ss
       ELSE /\ ss' = Zero32
            /\ pc' = "I342"
    /\ UNCHANGED <<dev, spi, card, op, stk, retval, npoll, nloop, frame, sector, ofs,
                   cnt, dat, result, ct, cmd, init_trys, tries, tkn, line, dresp,
                   clocked, last_write>>
    /\ UNCHANGED csd

\* lines 227-232: a pass of the wait for the register, then the register
SD_Sectors_Data ==
    /\ pc = "S227"
    /\ \E b \in (IF nloop >= MaxPoll THEN {254} ELSE {254, 255}) :
          IF b = 255
          THEN /\ nloop' = nloop + 1
               /\ spi' = SPI_RW(spi)
               /\ UNCHANGED <<csd, pc>>
          ELSE \E r \in CSDs :
               /\ spi' = SPI_Release(SPI_RW_n(spi, 1 + 16 + 2))
               /\ csd' = r
               /\ nloop' = 0
               /\ pc' = "S233"
    /\ UNCHANGED <<dev, card, op, stk, retval, npoll, frame, sector, ofs, cnt, dat,
                   result, ct, cmd, init_trys, tries, ss, tkn, line, dresp, clocked,
                   last_write>>

\* lines 233-263: the decode of the register
SD_Sectors_Decode ==
    /\ pc = "S233"
    /\ ss' = __SD_Sectors(dev.cardtype, csd)
    /\ pc' = "I342"
    /\ UNCHANGED <<dev, spi, card, op, stk, retval, npoll, nloop, frame, sector, ofs,
                   cnt, dat, result, ct, cmd, init_trys, tries, tkn, line, dresp,
                   clocked, last_write, csd>>

\* lines 342-346
SD_Init_Return ==
    /\ pc = "I342"
    /\ dev' = [dev EXCEPT !.last_sector = LastSector(ss)]
    /\ spi' = SPI_Release(SPI_Freq_High(spi))
    /\ result' = SD_OK
    /\ pc' = "idle"
    /\ UNCHANGED <<card, op, stk, retval, npoll, nloop, frame, sector, ofs, cnt, dat, ct,
                   cmd, init_trys, tries, ss, tkn, line, dresp, clocked, last_write>>
    /\ UNCHANGED csd

(***************************************************************************)
(* SD_Read                                                                 *)
(***************************************************************************)
\* Bytes a card sends while the driver waits for the data packet: the idle
\* line, the start token, a data error token.
TokenBytes == {255, 254, 9}

ReadParErr(d, sec, n) == Lt32(U32Of(d.last_sector), sec) \/ n = 0

ByteAddress(sec) == Mul32(sec, SD_BLK_SIZE)

\* line 361 without the test of the timer
TokenAgain_NoTimer(t, status) == t = 255

TokenAgain(t, status) == t = 255 /\ status = TRUE

\* line 366 without the two CRC bytes
Remaining_NoCrc(o, n) == (SD_BLK_SIZE - o - n) % U16

\* line 366, in uint16_t
Remaining(o, n) == (SD_BLK_SIZE + 2 - o - n) % U16

\* passes of do { } while (--n) over a uint16_t n
DoWhile(n) == IF n = 0 THEN U16 ELSE n

Skipped(o) == IF o # 0 THEN DoWhile(o) ELSE 0

SD_Read_Call ==
    /\ Enter("SD_Read")
    /\ \E sec \in SectorArgs : \E a \in ReadArgs :
          /\ sector' = sec /\ ofs' = a[1] /\ cnt' = a[2]
          /\ IF ReadParErr(dev, sec, a[2])
             THEN /\ result' = SD_PARERR
                  /\ pc' = "idle"
                  /\ UNCHANGED stk
             ELSE /\ stk' = Call(CMD17, ByteAddress(sec))
                  /\ result' = "none"
                  /\ pc' = "R357"
    /\ dat' = << >>
    /\ UNCHANGED <<dev, card, ss, last_write>>

\* lines 357-358, or 385-386
SD_Read_Cmd ==
    /\ pc = "R357"
    /\ stk = << >>
    /\ IF retval = 0
       THEN /\ spi' = SPI_Timer_On(spi, 100)
            /\ pc' = "R360"
            /\ UNCHANGED result
       ELSE /\ spi' = SPI_Release(spi)
            /\ result' = SD_ERROR
            /\ pc' = "idle"
    /\ UNCHANGED <<dev, card, op, stk, retval, npoll, nloop, frame, sector, ofs, cnt,
                   dat, ct, cmd, init_trys, tries, ss, tkn, line, dresp, clocked,
                   last_write>>
    /\ UNCHANGED csd

\* lines 359-362: a pass of the wait for the data packet
SD_Read_Token ==
    /\ pc = "R360"
    /\ \E b \in TokenBytes : \E s \in Elapse(SPI_RW(spi), nloop) :
       \E status \in SPI_Timer_Status(s, nloop) :
          /\ tkn' = b
          /\ IF TokenAgain(b, status)
             THEN /\ spi' = s
                  /\ nloop' = nloop + 1
                  /\ UNCHANGED pc
             ELSE /\ spi' = SPI_Timer_Off(s)
                  /\ nloop' = 0
                  /\ pc' = "R364"
    /\ UNCHANGED <<dev, card, op, stk, retval, npoll, frame, sector, ofs, cnt, dat,
                   result, ct, cmd, init_trys, tries, ss, line, dresp, clocked,
                   last_write>>
    /\ UNCHANGED csd

\* lines 364-386.  The code counts its copies of ofs and cnt down; the
\* arguments stay as the caller gave them.
SD_Read_Data ==
    /\ pc = "R364"
    /\ IF tkn = 254
       THEN /\ dat' = [i \in 1..DoWhile(cnt) |->
                         CardStream(card, FrameArg(frame), Skipped(ofs) + i - 1)]
            /\ clocked' = Skipped(ofs) + DoWhile(cnt) + DoWhile(Remaining(ofs, cnt))
            /\ result' = SD_OK
       ELSE /\ result' = SD_ERROR
            /\ UNCHANGED <<dat, clocked>>
    /\ spi' = SPI_Release(IF tkn = 254 THEN SPI_RW(spi) ELSE spi)
    /\ pc' = "idle"
    /\ UNCHANGED <<dev, card, op, stk, retval, npoll, nloop, frame, sector, ofs, cnt, ct,
                   cmd, init_trys, tries, ss, tkn, line, dresp, last_write>>
    /\ UNCHANGED csd

(***************************************************************************)
(* SD_Write and __SD_Write_Block                                           *)
(***************************************************************************)
\* Data-response bytes: accepted, CRC error, a byte that differs from
\* "accepted" in bit 4 only, and the idle line.
DataRespBytes == {229, 11, 21, 255}

\* Bytes a card sends while it programs the block, and once it has.
BusyBytes == {0, 255}

WriteParErr(d, sec) == Lt32(U32Of(d.last_sector), sec)

\* line 199 with the mask 0x0F
Accepted_Low4(b) == b % 16 = 5

Accepted(b) == b % 32 = 5

\* line 205 without the test of line
BusyAgain_NoLine(l, status) == status = TRUE

BusyAgain(l, status) == l = 0 /\ status = TRUE

BusyResult(l) == IF l = 0 THEN SD_BUSY ELSE SD_OK

\* line 194 with the index one too far
BlockBytes_Shift(d) == [idx \in 1..SD_BLK_SIZE |-> d[(idx % SD_BLK_SIZE) + 1]]

\* line 194: the bytes clocked out as the block
BlockBytes(d) == [idx \in 1..SD_BLK_SIZE |-> d[idx]]

NoWrite == [sector |-> Zero32, data |-> << >>]

SD_Write_Call ==
    /\ Enter("SD_Write")
    /\ \E sec \in SectorArgs : \E d \in Patterns :
          /\ sector' = sec /\ dat' = d
          /\ IF WriteParErr(dev, sec)
             THEN /\ result' = SD_PARERR
                  /\ pc' = "idle"
                  /\ UNCHANGED stk
             ELSE /\ stk' = Call(CMD24, ByteAddress(sec))
                  /\ result' = "none"
                  /\ pc' = "W395"
    /\ ofs' = 0 /\ cnt' = 0
    /\ last_write' = NoWrite
    /\ UNCHANGED <<dev, card, ss>>

\* lines 395-398 and 189-202
SD_Write_Block ==
    /\ pc = "W395"
    /\ stk = << >>
    /\ IF retval = 0
       THEN \E b \in DataRespBytes :
            /\ dresp' = b
            /\ IF Accepted(b)
               THEN /\ card' = [addr |-> FrameArg(frame), data |-> BlockBytes(dat)]
                    /\ spi' = SPI_Timer_On(SPI_RW_n(spi, 1 + SD_BLK_SIZE + 2 + 1),
                                           SD_IO_WRITE_TIMEOUT_WAIT)
                    /\ pc' = "B204"
                    /\ UNCHANGED result
               ELSE /\ spi' = SPI_RW_n(spi, 1 + SD_BLK_SIZE + 2 + 1)
                    /\ result' = SD_REJECT
                    /\ pc' = "idle"
                    /\ UNCHANGED card
       ELSE /\ result' = SD_ERROR
            /\ pc' = "idle"
            /\ UNCHANGED <<spi, card, dresp>>
    /\ UNCHANGED <<dev, op, stk, retval, npoll, nloop, frame, sector, ofs, cnt, dat, ct,
                   cmd, init_trys, tries, ss, tkn, line, clocked, last_write>>
    /\ UNCHANGED csd

\* lines 203-208: a pass of the wait for the end of programming
SD_Write_Busy ==
    /\ pc = "B204"
    /\ \E b \in BusyBytes : \E s \in Elapse(SPI_RW(spi), nloop) :
       \E status \in SPI_Timer_Status(s, nloop) :
          /\ line' = b
          /\ IF BusyAgain(b, status)
             THEN /\ spi' = s
                  /\ nloop' = nloop + 1
                  /\ UNCHANGED <<pc, result, last_write>>
             ELSE /\ spi' = SPI_Timer_Off(s)
                  /\ nloop' = 0
                  /\ result' = BusyResult(b)
                  /\ last_write' = IF BusyResult(b) = SD_OK
                                   THEN [sector |-> sector, data |-> dat]
                                   ELSE last_write
                  /\ pc' = "idle"
    /\ UNCHANGED <<dev, card, op, stk, retval, npoll, frame, sector, ofs, cnt, dat, ct,
                   cmd, init_trys, tries, ss, tkn, dresp, clocked>>
    /\ UNCHANGED csd

(***************************************************************************)
(* SD_Status                                                               *)
(***************************************************************************)
StatusResult(res) == IF res # 0 THEN SD_OK ELSE SD_NORESPONSE

SD_Status_Call ==
    /\ Enter("SD_Status")
    /\ stk' = Call(CMD0, Zero32)
    /\ pc' = "T403"
    /\ result' = "none"
    /\ sector' = Zero32 /\ ofs' = 0 /\ cnt' = 0 /\ dat' = << >>
    /\ UNCHANGED <<dev, card, ss, last_write>>

SD_Status_Return ==
    /\ pc = "T403"
    /\ stk = << >>
    /\ result' = StatusResult(retval)
    /\ pc' = "idle"
    /\ UNCHANGED <<dev, spi, card, op, stk, retval, npoll, nloop, frame, sector, ofs,
                   cnt, dat, ct, cmd, init_trys, tries, ss, tkn, line, dresp, clocked,
                   last_write>>
    /\ UNCHANGED csd

(***************************************************************************)
(* Properties                                                              *)
(***************************************************************************)
BlockOp == pc = "idle" /\ op \in {"SD_Read", "SD_Write"}

\* No byte exchanged, chip select not driven, no command frame sent.
WireUntouched == ~spi.xfer /\ ~spi.cschg /\ frame = << >>

\* C1: in a mounted session whose decoded sector count is at least 1, SD_Read
\* and SD_Write of sector == sector count return SD_PARERR and leave the
\* transport untouched.
C1_FirstSectorPastEnd ==
    (BlockOp /\ dev.mount /\ ss # Zero32 /\ sector = ss)
        => (result = SD_PARERR /\ WireUntouched)

C1_Witness ==
    /\ BlockOp /\ op = "SD_Write" /\ dev.mount
    /\ ss = << 1, 32 >> /\ sector = ss
    /\ result = SD_PARERR /\ WireUntouched

\* C2: while dev.mount is FALSE, SD_Read and SD_Write return an error and send
\* no command.
C2_UnmountedNeverOnWire ==
    (BlockOp /\ ~dev.mount) => (result # SD_OK /\ WireUntouched)

\* C3: when no pass of the negotiation detects a class, SD_Init makes exactly
\* SD_INIT_TRYS passes and returns SD_NOINIT; it never makes a fourth.
C3_ThreePassesThenNoInit ==
    /\ Len(tries) <= SD_INIT_TRYS
    /\ (Returned("SD_Init") /\ \A i \in DOMAIN tries : tries[i].ct = 0)
          => (Len(tries) = SD_INIT_TRYS /\ init_trys = SD_INIT_TRYS
              /\ result = SD_NOINIT)

C3_Witness ==
    /\ Returned("SD_Init") /\ result = SD_NOINIT
    /\ Len(tries) = SD_INIT_TRYS
    /\ \A i \in DOMAIN tries : ~tries[i].idle /\ tries[i].ct = 0

\* C4: the first pass that detects a class ends the loop: no pass follows a
\* detection, and SD_Init then returns SD_OK with the session mounted; so it
\* does when passes 1 and 2 get no "idle" for CMD0 and pass 3 detects a class.
C4_FirstDetectionWins ==
    Returned("SD_Init") =>
        /\ Len(tries) \in 1..SD_INIT_TRYS
        /\ \A i \in 1..(Len(tries) - 1) : tries[i].ct = 0
        /\ \A i \in DOMAIN tries : ~tries[i].idle => tries[i].ct = 0
        /\ tries[Len(tries)].ct # 0 => (result = SD_OK /\ dev.mount)

C4_Witness ==
    /\ Returned("SD_Init") /\ Len(tries) = 3
    /\ ~tries[1].idle /\ ~tries[2].idle /\ tries[3].idle /\ tries[3].ct # 0
    /\ result = SD_OK /\ dev.mount

\* The card answered the read command and sent the start token.
ReadAnswered == Returned("SD_Read") /\ frame # << >> /\ retval = 0 /\ tkn = 254

\* C5: after an SD_Write of a block to sector N that returned SD_OK, an SD_Read
\* of all 512 bytes of sector N which the card answers returns SD_OK and
\* delivers the same block; both address byte N * 512.
C5_RoundTrip ==
    (ReadAnswered /\ last_write # NoWrite /\ sector = last_write.sector
        /\ ofs = 0 /\ cnt = SD_BLK_SIZE)
        => /\ result = SD_OK
           /\ dat = last_write.data
           /\ FrameArg(frame) = Mul32(sector, SD_BLK_SIZE)
           /\ card.addr = FrameArg(frame)

C5_Witness ==
    /\ dev.mount
    /\ ReadAnswered /\ last_write # NoWrite /\ sector = last_write.sector
    /\ sector # Zero32 /\ ofs = 0 /\ cnt = SD_BLK_SIZE
    /\ result = SD_OK /\ dat = Pattern(3)

\* C6: for cnt >= 1 and ofs + cnt <= 512, an SD_Read that saw the start token
\* has clocked exactly 514 bytes after it, storing the cnt bytes that follow the
\* first ofs of the block, and has released the card.
C6_Clocks514 ==
    (ReadAnswered /\ cnt >= 1 /\ ofs + cnt <= SD_BLK_SIZE)
        => /\ clocked = SD_BLK_SIZE + 2
           /\ Len(dat) = cnt
           /\ \A i \in 1..cnt : dat[i] = CardBlock(card, FrameArg(frame))[ofs + i]
           /\ spi.cs = "high"

C6_Witness ==
    /\ dev.mount
    /\ ReadAnswered /\ ofs = 100 /\ cnt = 12
    /\ clocked = 514 /\ dat # [i \in 1..12 |-> 0]

\* SD_Write got its command acknowledged and sent the block.
BlockSent == Returned("SD_Write") /\ frame # << >> /\ retval = 0

\* C7: a data response whose low 5 bits are not 00101 makes SD_Write return
\* SD_REJECT without entering the busy poll: the 250 ms timeout is never
\* started.
C7_RejectSkipsBusyPoll ==
    /\ pc = "B204" => dresp % 32 = 5
    /\ (BlockSent /\ dresp % 32 # 5)
          => (result = SD_REJECT /\ spi.ms # SD_IO_WRITE_TIMEOUT_WAIT)

C7_Witness ==
    dev.mount /\ BlockSent /\ dresp = 21 /\ result = SD_REJECT /\ spi.ms = 5

\* C8: the busy poll returns SD_BUSY exactly when its timeout expired with the
\* last byte read 0, and SD_OK at the first non-zero byte, also when the
\* timeout expired during that poll.
C8_BusyPoll ==
    /\ pc = "B204" => line = 0
    /\ (BlockSent /\ spi.ms = SD_IO_WRITE_TIMEOUT_WAIT)
          => /\ result = SD_BUSY <=> (line = 0 /\ spi.tmo)
             /\ result = SD_OK <=> line # 0

C8_Witness ==
    /\ dev.mount
    /\ BlockSent /\ spi.ms = SD_IO_WRITE_TIMEOUT_WAIT
    /\ line # 0 /\ spi.tmo /\ result = SD_OK

\* C9: SD_Status returns SD_OK when CMD0 is answered with "idle" (0x01), and
\* SD_NORESPONSE for any other answer.
C9_StatusIdleOnly ==
    Returned("SD_Status") =>
        /\ frame = CmdFrame(CMD0, Zero32)
        /\ result = (IF retval = 1 THEN SD_OK ELSE SD_NORESPONSE)

\* C10: in a mounted session SD_Write, and SD_Read with cnt >= 1, return
\* SD_PARERR exactly when sector > sector count - 1, whatever the decoded
\* sector count; every other sector is sent on the wire.
C10_SectorRange ==
    (BlockOp /\ dev.mount /\ (op = "SD_Read" => cnt >= 1))
        => /\ result = SD_PARERR <=> ~Lt32(sector, ss)
           /\ Lt32(sector, ss) => FrameArg(frame) = Mul32(sector, SD_BLK_SIZE)

\* The session is mounted and the sector asked for is one the card has.
OnCard == dev.mount /\ Lt32(sector, ss)

\* C11: SD_Read with ofs > 511, cnt = 0, cnt > 512 or ofs + cnt > 512 returns
\* SD_PARERR, leaves the transport untouched and stores nothing (stated for a
\* sector of a mounted card).
C11_BadOffsetCount ==
    (Returned("SD_Read") /\ OnCard
        /\ (ofs > SD_BLK_SIZE - 1 \/ cnt = 0 \/ cnt > SD_BLK_SIZE \/ ofs + cnt > SD_BLK_SIZE))
        => (result = SD_PARERR /\ WireUntouched /\ dat = << >>)

\* An application command is waiting for the answer to its escape.
EscPending == stk # << >> /\ Top.at = "esc"

\* C15: an application command first sends CMD55 with argument 0; an answer
\* above 1 is returned at once and the frame of the target command is never
\* clocked out; after an answer of 0 or 1 exactly one frame follows, that of the
\* target command with bit 7 cleared, and the wait for its response sends none.
C15_AppCmdEscape ==
    [][ /\ (stk # << >> /\ Top.at = "entry" /\ Top.cmd >= 128)
            => /\ stk' = Below \o << [Top EXCEPT !.cmd = Top.cmd - 128, !.at = "esc"],
                                      [cmd |-> CMD55, arg |-> Zero32, at |-> "entry"] >>
               /\ frame' = frame
        /\ EscPending
            => /\ frame = CmdFrame(CMD55, Zero32)
               /\ Top.cmd < 128
               /\ IF retval > 1
                  THEN frame' = frame /\ retval' = retval /\ stk' = Below
                  ELSE /\ frame' = CmdFrame(Top.cmd, Top.arg)
                       /\ stk' = Below \o << [Top EXCEPT !.at = "poll"] >>
        /\ (stk # << >> /\ Top.at = "poll") => frame' = frame
      ]_vars

\* ACMD41 of the legacy branch given up after CMD55 was answered 0x05
C15_Witness ==
    /\ pc = "I319" /\ stk = << >> /\ retval = 5
    /\ frame = CmdFrame(CMD55, Zero32)

\* The timeout each polling loop of SD_Init starts for itself.
OwnTimeout(p) ==
    CASE p = "I294" -> 500
      [] p = "I307" -> 1000
      [] p = "I331" -> 250
      [] OTHER -> 0

\* C16: a polling loop of SD_Init (lines 294, 307, 331) issues a further command
\* only while its own timeout is the one running: once that timeout has
\* elapsed, or is no longer the one the timer holds, the loop stops.
C16_LoopOwnTimeout ==
    [][ (pc \in {"I294", "I307", "I331"} /\ stk = << >> /\ pc' = pc /\ stk' # << >>)
            => (spi.timer = "run" /\ spi.ms = OwnTimeout(pc))
      ]_vars

\* SD_Read got CMD17 acknowledged and waited for the data packet.
ReadWaited == Returned("SD_Read") /\ frame # << >> /\ retval = 0

\* C18: the wait for the data packet ends only at the 0xFE token or when the
\* 100 ms timeout has elapsed, so SD_Read returns SD_ERROR for an acknowledged
\* CMD17 only after a timeout with no token (stated for a sector of a
\* mounted card).
C18_TokenWait ==
    /\ (pc = "R364" /\ OnCard) => (tkn = 254 \/ spi.tmo)
    /\ (ReadWaited /\ OnCard /\ result = SD_ERROR) => (spi.tmo /\ tkn # 254)

\* The card classes SD_Init can detect.
CardClasses == {SDCT_MMC, SDCT_SD1, SDCT_SD2, SDCT_SD2 + SDCT_BLOCK}

\* C19: when SD_Init has returned, the result is SD_OK exactly when dev.mount
\* is TRUE; then dev.cardtype is a detectable class and the clock is fast; on
\* SD_NOINIT dev.mount is FALSE and the clock is slow.
C19_InitResult ==
    Returned("SD_Init") =>
        /\ result \in {SD_OK, SD_NOINIT}
        /\ result = SD_OK <=> dev.mount
        /\ result = SD_OK => (dev.cardtype \in CardClasses /\ spi.freq = "high")
        /\ result = SD_NOINIT => (~dev.mount /\ spi.freq = "low")

\* a re-initialization that fails after an earlier success
C19_Witness ==
    /\ Returned("SD_Init") /\ result = SD_NOINIT
    /\ dev.cardtype = SDCT_SD2 + SDCT_BLOCK /\ ~dev.mount /\ spi.freq = "low"

\* C20: when SD_Init, SD_Read or SD_Write has returned after driving the
\* transport, chip select is released (stated for the sectors of a mounted
\* card and for every return of SD_Init).
C20_Deselected ==
    (pc = "idle" /\ (spi.xfer \/ spi.cschg)
        /\ (op = "SD_Init" \/ (op \in {"SD_Read", "SD_Write"} /\ OnCard)))
        => spi.cs = "high"

\* The fields of a descriptor register as the CSD layout defines them.
FieldReadBlLen(r) == r[6] % 16

FieldCSizeV1(r) == ((r[7] % 4) * 1024) + (r[8] * 4) + (r[9] \div 64)

FieldCSizeMult(r) == ((r[10] % 4) * 2) + (r[11] \div 128)

FieldCSizeV2(r) == ((r[8] % 64) * 65536) + (r[9] * 256) + r[10]

\* (c + 1) * 2^(m + 2) * 2^bl / 512 over the integers
SectorCount(c, m, bl) ==
    IF m + 2 + bl >= 9
    THEN (c + 1) * Pow2(m + 2 + bl - 9)
    ELSE (c + 1) \div Pow2(9 - (m + 2 + bl))

\* __SD_Sectors has decoded the register.
Decoded == pc = "I342" /\ csd # NoCSD

\* C12: for an SD-v1 card the decode returns (C_SIZE + 1) * 2^(C_SIZE_MULT + 2)
\* * 2^READ_BL_LEN / 512 for every value of the three fields, with no
\* wrap-around; for C_SIZE = 0, C_SIZE_MULT = 0, READ_BL_LEN = 9 it returns 4.
C12_SectorsV1 ==
    (Decoded /\ dev.cardtype = SDCT_SD1)
        => ss = U32Of(SectorCount(FieldCSizeV1(csd), FieldCSizeMult(csd),
                                  FieldReadBlLen(csd)))

\* C13: for an SD-v2 card the decode returns the sector count the capacity
\* formula gives for the 22-bit C_SIZE of bytes 7-9 with C_SIZE_MULT = 0 (for
\* some block length exponent).
C13_SectorsV2 ==
    (Decoded /\ dev.cardtype \in {SDCT_SD2, SDCT_SD2 + SDCT_BLOCK})
        => \E bl \in 0..15 : ss = U32Of(SectorCount(FieldCSizeV2(csd), 0, bl))

\* C14: a card detected as MMC obtains the sector count an SD-v1 card
\* presenting the same register obtains.
C14_SectorsMMC ==
    (Decoded /\ dev.cardtype = SDCT_MMC) => ss = __SD_Sectors(SDCT_SD1, csd)

UninitLastSector == {0, 65535}

Init ==
    /\ dev \in {[mount |-> FALSE, cardtype |-> 0, last_sector |-> l] : l \in UninitLastSector}
    /\ spi = [cs |-> "high", freq |-> "low", timer |-> "off", xfer |-> FALSE,
              cschg |-> FALSE, ms |-> 0, tmo |-> FALSE]
    /\ card = [addr |-> Zero32, data |-> Blank]
    /\ pc = "idle"
    /\ op = "none"
    /\ stk = << >>
    /\ retval = 0 /\ npoll = 0 /\ nloop = 0
    /\ frame = << >>
    /\ sector = Zero32 /\ ofs = 0 /\ cnt = 0 /\ dat = << >>
    /\ result = "none"
    /\ ct = 0 /\ cmd = 0 /\ init_trys = 0 /\ tries = << >>
    /\ ss = Zero32
    /\ tkn = 0 /\ line = 0 /\ dresp = 0 /\ clocked = 0
    /\ last_write = NoWrite
    /\ csd = NoCSD

Next ==
    \/ SC_Entry
    \/ SC_Esc
    \/ SC_Poll
    \/ SD_Init_Call
    \/ SD_Init_Loop
    \/ SD_Init_Idle
    \/ SD_Init_Probe
    \/ SD_Init_Version
    \/ SD_Init_V2Wait
    \/ SD_Init_V2Class
    \/ SD_Init_Legacy
    \/ SD_Init_LegacyWait
    \/ SD_Init_CrcOff
    \/ SD_Init_BlockLen
    \/ SD_Init_Mount
    \/ SD_Sectors_Cmd
    \/ SD_Sectors_Data
    \/ SD_Sectors_Decode
    \/ SD_Init_Return
    \/ SD_Read_Call
    \/ SD_Read_Cmd
    \/ SD_Read_Token
    \/ SD_Read_Data
    \/ SD_Write_Call
    \/ SD_Write_Block
    \/ SD_Write_Busy
    \/ SD_Status_Call
    \/ SD_Status_Return

Spec == Init /\ [][Next]_vars

(***************************************************************************)
(* The descriptor decode on its own: SD_Init has mounted a card of some     *)
(* class and __SD_Sectors has read its register.                           *)
(***************************************************************************)
\* Registers holding given fields, in the SD-v1 / MMC and the SD-v2 layout.
CsdV1(c, m, bl) ==
    << 0, 0, 0, 0, 0, bl, c \div 1024, (c \div 4) % 256, (c % 4) * 64,
       m \div 2, (m % 2) * 128, 0, 0, 0, 0, 0 >>

CsdV2(c) ==
    << 64, 0, 0, 0, 0, 9, 0, c \div 65536, (c \div 256) % 256, c % 256,
       0, 0, 0, 0, 0, 0 >>

DecodeCSDs ==
    {CsdV1(c, m, bl) : c \in {0, 1, 2048, 4095}, m \in 0..7, bl \in 0..15}
        \cup {CsdV2(c) : c \in {0, 1, 127, 65535, 65536, 65537, 4194303}}

DecodeInit ==
    /\ \E c \in CardClasses : \E l \in UninitLastSector :
          /\ dev = [mount |-> TRUE, cardtype |-> c, last_sector |-> l]
          /\ ct = c
          /\ tries = << [idle |-> TRUE, ct |-> c] >>
    /\ csd \in DecodeCSDs
    /\ spi = [cs |-> "high", freq |-> "low", timer |-> "off", xfer |-> TRUE,
              cschg |-> TRUE, ms |-> 5, tmo |-> FALSE]
    /\ card = [addr |-> Zero32, data |-> Blank]
    /\ pc = "S233"
    /\ op = "SD_Init"
    /\ stk = << >>
    /\ retval = 0 /\ npoll = 0 /\ nloop = 0
    /\ frame = CmdFrame(CMD9, Zero32)
    /\ sector = Zero32 /\ ofs = 0 /\ cnt = 0 /\ dat = << >>
    /\ result = "none"
    /\ cmd = 0 /\ init_trys = 1
    /\ ss = Zero32
    /\ tkn = 0 /\ line = 0 /\ dresp = 0 /\ clocked = 0
    /\ last_write = NoWrite

DecodeNext ==
    \/ SD_Sectors_Decode
    \/ SD_Init_Return

DecodeSpec == DecodeInit /\ [][DecodeNext]_vars

(***************************************************************************)
(* The block operations without a bound on the passes of a polling loop:   *)
(* the card is mounted, a loop may go round for ever, and the timer        *)
(* expires on its own.  nloop and npoll count passes modulo 2 here.        *)
(***************************************************************************)
\* A running timeout reaches its end.
TimerExpire ==
    /\ spi.timer = "run"
    /\ spi' = [spi EXCEPT !.timer = "exp"]
    /\ UNCHANGED <<dev, card, pc, op, stk, retval, npoll, nloop, frame, sector, ofs, cnt,
                   dat, result, ct, cmd, init_trys, tries, ss, tkn, line, dresp, clocked,
                   last_write, csd>>

\* lines 171-176: one pass of the response wait
SC_PollLive ==
    /\ stk # << >>
    /\ Top.at = "poll"
    /\ \E res \in R1Bytes : \E status \in SPI_Timer_Status(SPI_RW(spi), 0) :
          IF RespAgain(res, status)
          THEN /\ spi' = SPI_RW(spi)
               /\ npoll' = 1 - npoll
               /\ UNCHANGED <<stk, retval>>
          ELSE /\ spi' = SPI_Timer_Off(SPI_RW(spi))
               /\ npoll' = 0
               /\ stk' = Below
               /\ retval' = res
    /\ UNCHANGED <<dev, card, pc, op, nloop, frame, sector, ofs, cnt, dat, result, ct,
                   cmd, init_trys, tries, ss, tkn, line, dresp, clocked, last_write, csd>>

\* lines 359-362: one pass of the wait for the data packet
SD_Read_TokenLive ==
    /\ pc = "R360"
    /\ \E b \in TokenBytes : \E status \in SPI_Timer_Status(SPI_RW(spi), 0) :
          /\ tkn' = b
          /\ IF TokenAgain(b, status)
             THEN /\ spi' = SPI_RW(spi)
                  /\ nloop' = 1 - nloop
                  /\ UNCHANGED pc
             ELSE /\ spi' = SPI_Timer_Off(SPI_RW(spi))
                  /\ nloop' = 0
                  /\ pc' = "R364"
    /\ UNCHANGED <<dev, card, op, stk, retval, npoll, frame, sector, ofs, cnt, dat,
                   result, ct, cmd, init_trys, tries, ss, line, dresp, clocked,
                   last_write, csd>>

\* lines 203-208: one pass of the wait for the end of programming
SD_Write_BusyLive ==
    /\ pc = "B204"
    /\ \E b \in BusyBytes : \E status \in SPI_Timer_Status(SPI_RW(spi), 0) :
          /\ line' = b
          /\ IF BusyAgain(b, status)
             THEN /\ spi' = SPI_RW(spi)
                  /\ nloop' = 1 - nloop
                  /\ UNCHANGED <<pc, result, last_write>>
             ELSE /\ spi' = SPI_Timer_Off(SPI_RW(spi))
                  /\ nloop' = 0
                  /\ result' = BusyResult(b)
                  /\ last_write' = IF BusyResult(b) = SD_OK
                                   THEN [sector |-> sector, data |-> dat]
                                   ELSE last_write
                  /\ pc' = "idle"
    /\ UNCHANGED <<dev, card, op, stk, retval, npoll, frame, sector, ofs, cnt, dat, ct,
                   cmd, init_trys, tries, ss, tkn, dresp, clocked, csd>>

\* SD_Init has returned SD_OK for an SD-v1 card of 4 sectors.
LiveInit ==
    /\ dev = [mount |-> TRUE, cardtype |-> SDCT_SD1, last_sector |-> 3]
    /\ ss = << 0, 4 >>
    /\ spi = [cs |-> "high", freq |-> "high", timer |-> "off", xfer |-> TRUE,
              cschg |-> TRUE, ms |-> 5, tmo |-> FALSE]
    /\ card = [addr |-> Zero32, data |-> Blank]
    /\ pc = "idle"
    /\ op = "SD_Init"
    /\ stk = << >>
    /\ retval = 0 /\ npoll = 0 /\ nloop = 0
    /\ frame = CmdFrame(CMD9, Zero32)
    /\ sector = Zero32 /\ ofs = 0 /\ cnt = 0 /\ dat = << >>
    /\ result = SD_OK
    /\ ct = SDCT_SD1 /\ cmd = 0 /\ init_trys = 1
    /\ tries = << [idle |-> TRUE, ct |-> SDCT_SD1] >>
    /\ tkn = 0 /\ line = 0 /\ dresp = 0 /\ clocked = 0
    /\ last_write = NoWrite
    /\ csd = CsdV1(0, 0, 9)

\* The steps of the driver once a public function has been called.
LiveRun ==
    \/ SC_Entry
    \/ SC_PollLive
    \/ SD_Read_Cmd
    \/ SD_Read_TokenLive
    \/ SD_Read_Data
    \/ SD_Write_Block
    \/ SD_Write_BusyLive
    \/ SD_Status_Return

LiveNext ==
    \/ SD_Read_Call
    \/ SD_Write_Call
    \/ SD_Status_Call
    \/ LiveRun
    \/ TimerExpire

\* The called function keeps running, and every started timeout expires.
LiveSpec ==
    /\ LiveInit
    /\ [][LiveNext]_vars
    /\ WF_vars(LiveRun)
    /\ WF_vars(TimerExpire)

====
